---- MODULE Spec2Model ----
(***************************************************************************)
(* A model of repack_s3: the prefix helpers, the lister, the single-object *)
(* rewriter, the existence gate, the metadata copy and the worker pool of  *)
(* repack_prefix (src/repack_s3/repack.py).                                *)
(*                                                                         *)
(* A Python str is a sequence of one-character strings.  Thread 0 is the   *)
(* calling (main) thread; threads 1..MaxKeys run the pool's tasks, task i  *)
(* being the call _worker(keys[i]).                                        *)
(***************************************************************************)
EXTENDS Integers, Sequences, FiniteSets, TLC

\* ------------------------------------------------------------------ bounds
\* The largest number of matching keys a modelled source bucket holds.
MaxKeys == 2
\* How many times in a row the caller runs repack_prefix with the same arguments.
MaxRuns == 2
\* The longest string handed to the pure prefix functions on their own.
MaxPrefixLen == 4
\* The longest source key handed to the key mapper on its own.
MaxKeyLen == 3

\* ------------------------------------------------------- program constants
DefaultCpus == 4
CpuFactor == 4
WorkerCap == 32
ProgressDivisor == 10

\* ----------------------------------------------------------------- strings
Sep == "/"

\* str.lower() of one ASCII character.
Lower(c) ==
  CASE c = "A" -> "a"
    [] c = "B" -> "b"
    [] c = "C" -> "c"
    [] c = "D" -> "d"
    [] c = "E" -> "e"
    [] c = "F" -> "f"
    [] c = "G" -> "g"
    [] c = "H" -> "h"
    [] c = "I" -> "i"
    [] c = "J" -> "j"
    [] c = "K" -> "k"
    [] c = "L" -> "l"
    [] c = "M" -> "m"
    [] c = "N" -> "n"
    [] c = "O" -> "o"
    [] c = "P" -> "p"
    [] c = "Q" -> "q"
    [] c = "R" -> "r"
    [] c = "S" -> "s"
    [] c = "T" -> "t"
    [] c = "U" -> "u"
    [] c = "V" -> "v"
    [] c = "W" -> "w"
    [] c = "X" -> "x"
    [] c = "Y" -> "y"
    [] c = "Z" -> "z"
    [] OTHER -> c

LowerStr(s) == [i \in 1..Len(s) |-> Lower(s[i])]

StartsWith(s, p) == Len(p) <= Len(s) /\ SubSeq(s, 1, Len(p)) = p

EndsWith(s, e) == Len(e) <= Len(s) /\ SubSeq(s, Len(s) - Len(e) + 1, Len(s)) = e

\* ---------------------------------------------------------- prefix helpers
_ensure_no_leading_slash(path) ==
  IF StartsWith(path, <<Sep>>) THEN SubSeq(path, 2, Len(path)) ELSE path

_normalize_prefix(prefix) ==
  LET p == _ensure_no_leading_slash(prefix)
  IN IF p # <<>> /\ ~EndsWith(p, <<Sep>>) THEN p \o <<Sep>> ELSE p

\* _rel_key slicing one character too far.
_rel_key_OffByOne(full_key, prefix) ==
  IF prefix = <<>> THEN full_key
  ELSE IF ~StartsWith(full_key, prefix) THEN full_key
  ELSE SubSeq(full_key, Len(prefix) + 2, Len(full_key))

\* _rel_key slicing without the startswith test.
_rel_key_NoFallback(full_key, prefix) ==
  SubSeq(full_key, Len(prefix) + 1, Len(full_key))

_rel_key(full_key, prefix) ==
  IF prefix = <<>> THEN full_key
  ELSE IF ~StartsWith(full_key, prefix) THEN full_key
  ELSE SubSeq(full_key, Len(prefix) + 1, Len(full_key))

\* Lines 171-172: the destination key of a source key.
DestKey(src_key, sp, dp) == dp \o _rel_key(src_key, sp)

\* ------------------------------------------------------------------ lister
file_extensions ==
  << <<".", "p", "a", "r", "q", "u", "e", "t">>, <<".", "p", "a", "r", "q">> >>

\* The extension test without lowercasing the key first.
MatchesExtension_CaseSensitive(key) ==
  \E i \in 1..Len(file_extensions) : EndsWith(key, file_extensions[i])

MatchesExtension(key) ==
  \E i \in 1..Len(file_extensions) : EndsWith(LowerStr(key), file_extensions[i])

RECURSIVE Flatten(_)
Flatten(pages) ==
  IF pages = <<>> THEN <<>> ELSE Head(pages) \o Flatten(Tail(pages))

RECURSIVE Filter(_)
Filter(ks) ==
  IF ks = <<>> THEN <<>>
  ELSE (IF MatchesExtension(Head(ks)) THEN <<Head(ks)>> ELSE <<>>) \o Filter(Tail(ks))

RECURSIVE UnderPrefix(_, _)
UnderPrefix(ks, prefix) ==
  IF ks = <<>> THEN <<>>
  ELSE (IF StartsWith(Head(ks), prefix) THEN <<Head(ks)>> ELSE <<>>)
       \o UnderPrefix(Tail(ks), prefix)

\* The pages the paginator yields: each page's keys under Prefix, in order.
Paginate(pages, prefix) ==
  [i \in 1..Len(pages) |-> UnderPrefix(pages[i], prefix)]

list_parquet_keys(pages, prefix) ==
  Filter(Flatten(Paginate(pages, _normalize_prefix(prefix))))

\* ------------------------------------------------- the modelled environment
KeyA == <<"s", "/", "a", ".", "p", "a", "r", "q">>
KeyB == <<"s", "/", "B", ".", "P", "A", "R", "Q">>
KeyC == <<"s", "/", "c", ".", "p", "a", "r", "q", "u", "e", "t">>
KeyTxt == <<"s", "/", "r", ".", "t", "x", "t">>
KeyOther == <<"t", "/", "a", ".", "p", "a", "r", "q">>
KeyMissing == <<"s", "/", "z", ".", "p", "a", "r", "q">>

\* Source buckets, each the sequence of pages list_objects_v2 enumerates.
AllStores ==
  { << <<>> >>,
    << <<KeyTxt, KeyOther>> >>,
    << <<KeyA, KeyTxt>>, <<KeyOther>> >>,
    << <<KeyA, KeyTxt>>, <<KeyB, KeyOther>> >>,
    << <<KeyA, KeyTxt>>, <<KeyB, KeyOther>>, <<KeyC>> >> }

StorePrefix == <<"s", "/">>
DestPrefix == <<"d", "/">>

Stores == { s \in AllStores : Len(list_parquet_keys(s, StorePrefix)) <= MaxKeys }

SrcPrefixChoices == { <<"s">>, <<"/", "/", "s">> }
DstPrefixChoices == { <<"/", "d">> }
MaxWorkersChoices == { 0, 1, 2 }
\* os.cpu_count(): 0 stands for None.
CpuCounts == { 0, 2, 16 }

Threads == 0..MaxKeys
Tasks == 1..MaxKeys

NoArgs == [src_prefix |-> <<>>, dst_prefix |-> <<>>, max_workers |-> 0, skip_existing |-> FALSE]

IdleThread ==
  [pc |-> "idle", src_key |-> <<>>, dst_key |-> <<>>, path |-> "none", tmp |-> 0,
   exc |-> "none", entered |-> FALSE, src_tmp |-> FALSE, dst_tmp |-> FALSE,
   probe |-> "none", outcome |-> "none"]

VARIABLES
  srcObjs,      \* the source bucket: pages of keys
  dstObjs,      \* the destination bucket: a set of [key, rows, meta]
  mainPc,       \* where the calling thread is
  args,         \* the arguments of the repack_prefix call in progress
  runNo,        \* how many times in a row repack_prefix ran with these arguments
  keys,         \* repack_prefix: keys
  max_workers,  \* repack_prefix: max_workers after lines 224-229
  ok_counter,
  err_counter,
  ok_lock,      \* the thread holding ok_lock, or -1
  nextTask,     \* tasks the pool has started, in submission order
  th,           \* each thread's locals
  progress,     \* the processed counts of the progress lines printed
  ops,          \* store calls issued by the repack_prefix call in progress
  result,       \* what the finished call returned
  pure,         \* a pure function applied on its own: [fn, arg, out]
  exit_code     \* the process's exit status, or -1 while it runs

vars == << srcObjs, dstObjs, mainPc, args, runNo, keys, max_workers, ok_counter,
           err_counter, ok_lock, nextTask, th, progress, ops, result, pure, exit_code >>

poolVars == << keys, max_workers, ok_counter, err_counter, ok_lock, nextTask, progress >>

NoPure == [fn |-> "none", arg |-> <<>>, out |-> <<>>]

Init ==
  /\ srcObjs \in Stores
  /\ dstObjs = {}
  /\ mainPc = "idle"
  /\ args = NoArgs
  /\ runNo = 0
  /\ keys = <<>>
  /\ max_workers = 0
  /\ ok_counter = 0
  /\ err_counter = 0
  /\ ok_lock = -1
  /\ nextTask = 0
  /\ th = [t \in Threads |-> IdleThread]
  /\ progress = <<>>
  /\ ops = {}
  /\ result = <<>>
  /\ pure = NoPure
  /\ exit_code = -1

\* ------------------------------------------------------ repack_prefix, main
src_prefix == _normalize_prefix(args.src_prefix)
dst_prefix == _normalize_prefix(args.dst_prefix)
total == Len(keys)
progress_step == IF total \div ProgressDivisor >= 1 THEN total \div ProgressDivisor ELSE 1

SrcKeys == UNION { { srcObjs[i][j] : j \in 1..Len(srcObjs[i]) } : i \in 1..Len(srcObjs) }
DstExists(key) == \E o \in dstObjs : o.key = key

ResetLocals ==
  /\ keys' = <<>>
  /\ max_workers' = 0
  /\ ok_counter' = 0
  /\ err_counter' = 0
  /\ ok_lock' = -1
  /\ nextTask' = 0
  /\ th' = [t \in Threads |-> IdleThread]
  /\ progress' = <<>>
  /\ ops' = {}
  /\ result' = <<>>

\* The caller invokes repack_prefix.
RepackCall ==
  /\ mainPc = "idle"
  /\ \E sp \in SrcPrefixChoices, dp \in DstPrefixChoices,
        mw \in MaxWorkersChoices, se \in BOOLEAN :
       args' = [src_prefix |-> sp, dst_prefix |-> dp, max_workers |-> mw,
                skip_existing |-> se]
  /\ runNo' = 1
  /\ mainPc' = "rp_list"
  /\ UNCHANGED << srcObjs, dstObjs, poolVars, th, ops, result, pure, exit_code >>

\* Lines 152-154: normalize both prefixes and list; the listing may raise.
RepackList ==
  /\ mainPc = "rp_list"
  /\ \/ /\ keys' = list_parquet_keys(srcObjs, src_prefix)
        /\ mainPc' = "rp_check"
        /\ UNCHANGED th
     \/ /\ mainPc' = "raised"
        /\ th' = [th EXCEPT ![0].exc = "listing"]
        /\ UNCHANGED keys
  /\ UNCHANGED << srcObjs, dstObjs, args, runNo, max_workers, ok_counter, err_counter,
                  ok_lock, nextTask, progress, ops, result, pure, exit_code >>

\* Lines 155-160: nothing to do.
RepackEmpty ==
  /\ mainPc = "rp_check"
  /\ total = 0
  /\ result' = <<0, 0>>
  /\ mainPc' = "returned"
  /\ UNCHANGED << srcObjs, dstObjs, args, runNo, poolVars, th, ops, pure, exit_code >>

EffectiveWorkers(mw, cpu_count) ==
  IF mw <= 0
  THEN LET cpus == IF cpu_count = 0 THEN DefaultCpus ELSE cpu_count
       IN IF CpuFactor * cpus < WorkerCap THEN CpuFactor * cpus ELSE WorkerCap
  ELSE mw

\* RepackSetup without the early return of lines 156-160 before it.
RepackSetup_NoEarlyReturn ==
  /\ mainPc = "rp_check"
  /\ \/ /\ ok_counter' = 0
        /\ err_counter' = 0
        /\ ok_lock' = -1
        /\ \E cpu_count \in CpuCounts :
             max_workers' = EffectiveWorkers(args.max_workers, cpu_count)
        /\ nextTask' = 0
        /\ mainPc' = "rp_pool"
        /\ UNCHANGED th
     \/ /\ mainPc' = "raised"
        /\ th' = [th EXCEPT ![0].exc = "s3fs"]
        /\ UNCHANGED << max_workers, ok_counter, err_counter, ok_lock, nextTask >>
  /\ UNCHANGED << srcObjs, dstObjs, args, runNo, keys, progress, ops, result, pure, exit_code >>

\* Lines 162-234: S3FileSystem is constructed, which may raise; the counters, the
\* lock, the worker count; then the pool is created and executor.map submits one task
\* per key.
RepackSetup ==
  /\ mainPc = "rp_check"
  /\ total # 0
  /\ \/ /\ ok_counter' = 0
        /\ err_counter' = 0
        /\ ok_lock' = -1
        /\ \E cpu_count \in CpuCounts :
             max_workers' = EffectiveWorkers(args.max_workers, cpu_count)
        /\ nextTask' = 0
        /\ mainPc' = "rp_pool"
        /\ UNCHANGED th
     \/ /\ mainPc' = "raised"
        /\ th' = [th EXCEPT ![0].exc = "s3fs"]
        /\ UNCHANGED << max_workers, ok_counter, err_counter, ok_lock, nextTask >>
  /\ UNCHANGED << srcObjs, dstObjs, args, runNo, keys, progress, ops, result, pure, exit_code >>

AllTasksDone == \A t \in 1..total : th[t].pc = "done"

\* The first task, in submission order, whose _worker call raised, everything
\* submitted before it having finished: where executor.map's iterator raises.
MapRaisesAt(t) ==
  /\ t \in 1..total
  /\ th[t].pc = "done"
  /\ th[t].outcome = "raised"
  /\ \A u \in 1..(t - 1) : th[u].pc = "done" /\ th[u].outcome # "raised"

\* RepackJoin returning without waiting for the tasks.
RepackJoin_NoBarrier ==
  /\ mainPc = "rp_pool"
  /\ result' = <<ok_counter, err_counter>>
  /\ mainPc' = "returned"
  /\ UNCHANGED << srcObjs, dstObjs, args, runNo, poolVars, th, ops, pure, exit_code >>

\* Lines 236-249: leaving the with block joins the pool; then the summary and return.
RepackJoin ==
  /\ mainPc = "rp_pool"
  /\ AllTasksDone
  /\ \A t \in 1..total : th[t].outcome # "raised"
  /\ result' = <<ok_counter, err_counter>>
  /\ mainPc' = "returned"
  /\ UNCHANGED << srcObjs, dstObjs, args, runNo, poolVars, th, ops, pure, exit_code >>

\* Line 237: list(executor.map(...)) reaches the result of a task whose _worker call
\* raised; the iterator cancels the tasks not yet started and the exception leaves
\* the with block, which waits for the running tasks.
RepackMapRaises ==
  /\ mainPc = "rp_pool"
  /\ \E t \in Tasks : MapRaisesAt(t)
  /\ mainPc' = "rp_shutdown"
  /\ th' = [th EXCEPT ![0].exc = "client"]
  /\ UNCHANGED << srcObjs, dstObjs, args, runNo, poolVars, ops, result, pure, exit_code >>

\* Lines 236-237: the pool has shut down; the exception leaves repack_prefix.
RepackRaise ==
  /\ mainPc = "rp_shutdown"
  /\ \A t \in Tasks : th[t].pc \in {"idle", "done"}
  /\ mainPc' = "raised"
  /\ UNCHANGED << srcObjs, dstObjs, args, runNo, poolVars, th, ops, result, pure, exit_code >>

\* The caller runs repack_prefix again with the same arguments.
RepackAgain ==
  /\ mainPc = "returned"
  /\ runNo >= 1
  /\ runNo < MaxRuns
  /\ runNo' = runNo + 1
  /\ mainPc' = "rp_list"
  /\ ResetLocals
  /\ UNCHANGED << srcObjs, dstObjs, args, pure, exit_code >>

\* The caller is done with the call's result.
MainReset ==
  /\ mainPc \in {"returned", "raised", "exited"}
  /\ mainPc' = "idle"
  /\ args' = NoArgs
  /\ runNo' = 0
  /\ exit_code' = -1
  /\ ResetLocals
  /\ UNCHANGED << srcObjs, dstObjs, pure >>

\* main returning 1 where it should return 2.
ExitCode_One(err) == IF err = 0 THEN 0 ELSE 1

\* __main__.py line 66.
ExitCode(err) == IF err = 0 THEN 0 ELSE 2

\* __main__.py lines 56-70: main called repack_prefix once; it prints the counts and
\* returns the status sys.exit hands to the system.  An exception from repack_prefix
\* leaves main uncaught, and the interpreter exits with status 1.
CliExit ==
  /\ runNo = 1
  /\ \/ /\ mainPc = "returned"
        /\ exit_code' = ExitCode(result[2])
     \/ /\ mainPc = "raised"
        /\ exit_code' = 1
  /\ mainPc' = "exited"
  /\ UNCHANGED << srcObjs, dstObjs, args, runNo, poolVars, th, ops, result, pure >>

\* ------------------------------------------------ rewrite_repack_streaming
\* Where control goes when thread t leaves rewrite_repack_streaming with locals r:
\* the calling thread gets the result; a task goes on in _worker, to line 197 or to
\* the except clause of line 211.
RewriteExit(t, r, cause) ==
  IF t = 0
  THEN /\ th' = [th EXCEPT ![t] = [r EXCEPT !.pc = "done", !.exc = cause]]
       /\ mainPc' = IF cause = "none" THEN "returned" ELSE "raised"
  ELSE /\ th' = [th EXCEPT ![t] =
                   IF cause = "none"
                   THEN [r EXCEPT !.pc = "copy_meta"]
                   ELSE [r EXCEPT !.pc = "lock", !.path = "err", !.exc = cause]]
       /\ mainPc' = mainPc

\* A step of the try block failed: the exception is pending and the finally runs.
RewriteFail(t, cause, at) ==
  th' = [th EXCEPT ![t].exc = cause, ![t].pc = at]

\* Lines 68-71: the body is entered; the source staging file.
RwAcquireSrc(t) ==
  /\ th[t].pc = "rw_src_tmp"
  /\ \/ /\ th' = [th EXCEPT ![t].entered = TRUE, ![t].src_tmp = TRUE,
                            ![t].pc = "rw_dst_tmp"]
        /\ UNCHANGED mainPc
     \/ RewriteExit(t, [th[t] EXCEPT !.entered = TRUE], "OSError")
  /\ UNCHANGED << srcObjs, dstObjs, args, runNo, poolVars, ops, result, pure, exit_code >>

\* Lines 72-76: the destination staging file is created, or its creation raises;
\* then the two names are read and the two files closed, where a close may raise
\* with both files on disk.
RwAcquireDst(t) ==
  /\ th[t].pc = "rw_dst_tmp"
  /\ \/ /\ th' = [th EXCEPT ![t].dst_tmp = TRUE, ![t].pc = "rw_download"]
        /\ UNCHANGED mainPc
     \/ RewriteExit(t, th[t], "OSError")
     \/ RewriteExit(t, [th[t] EXCEPT !.dst_tmp = TRUE], "OSError")
  /\ UNCHANGED << srcObjs, dstObjs, args, runNo, poolVars, ops, result, pure, exit_code >>

\* Line 80: download_file.
RwDownload(t) ==
  /\ th[t].pc = "rw_download"
  /\ \/ /\ th[t].src_key \in SrcKeys
        /\ th' = [th EXCEPT ![t].pc = "rw_reader"]
     \/ RewriteFail(t, "download", "rw_cleanup")
  /\ ops' = ops \cup {<<"download", th[t].src_key>>}
  /\ UNCHANGED << srcObjs, dstObjs, mainPc, args, runNo, poolVars, result, pure, exit_code >>

\* Lines 83-84: ParquetFile and its schema.
RwOpenReader(t) ==
  /\ th[t].pc = "rw_reader"
  /\ \/ th' = [th EXCEPT ![t].pc = "rw_writer"]
     \/ RewriteFail(t, "decode", "rw_cleanup")
  /\ UNCHANGED << srcObjs, dstObjs, mainPc, args, runNo, poolVars, ops, result, pure, exit_code >>

\* Line 85: ParquetWriter.
RwOpenWriter(t) ==
  /\ th[t].pc = "rw_writer"
  /\ \/ th' = [th EXCEPT ![t].pc = "rw_batches"]
     \/ RewriteFail(t, "encode", "rw_cleanup")
  /\ UNCHANGED << srcObjs, dstObjs, mainPc, args, runNo, poolVars, ops, result, pure, exit_code >>

\* Lines 86-88: the batches are read and written in order.
RwBatches(t) ==
  /\ th[t].pc = "rw_batches"
  /\ \/ th' = [th EXCEPT ![t].pc = "rw_close"]
     \/ \E cause \in {"decode", "encode"} : RewriteFail(t, cause, "rw_close")
  /\ UNCHANGED << srcObjs, dstObjs, mainPc, args, runNo, poolVars, ops, result, pure, exit_code >>

\* A writer close that falls through to the upload with an exception pending.
RwWriterClose_UploadAnyway(t) ==
  /\ th[t].pc = "rw_close"
  /\ \/ th' = [th EXCEPT ![t].pc = "rw_upload"]
     \/ RewriteFail(t, "encode", "rw_cleanup")
  /\ UNCHANGED << srcObjs, dstObjs, mainPc, args, runNo, poolVars, ops, result, pure, exit_code >>

\* Lines 89-90: finally writer.close(), with or without an exception pending.
RwWriterClose(t) ==
  /\ th[t].pc = "rw_close"
  /\ \/ th' = [th EXCEPT ![t].pc = IF th[t].exc = "none" THEN "rw_upload" ELSE "rw_cleanup"]
     \/ RewriteFail(t, "encode", "rw_cleanup")
  /\ UNCHANGED << srcObjs, dstObjs, mainPc, args, runNo, poolVars, ops, result, pure, exit_code >>

\* Line 93: upload_file.
RwUpload(t) ==
  /\ th[t].pc = "rw_upload"
  /\ \/ /\ dstObjs' = { o \in dstObjs : o.key # th[t].dst_key }
                       \cup {[key |-> th[t].dst_key, rows |-> th[t].src_key, meta |-> FALSE]}
        /\ th' = [th EXCEPT ![t].pc = "rw_cleanup"]
     \/ /\ RewriteFail(t, "upload", "rw_cleanup")
        /\ UNCHANGED dstObjs
  /\ ops' = ops \cup {<<"upload", th[t].dst_key>>}
  /\ UNCHANGED << srcObjs, mainPc, args, runNo, poolVars, result, pure, exit_code >>

\* Lines 94-101: both paths are removed, an os.remove that raises being ignored;
\* then the function returns, or the pending exception propagates.
RwCleanup(t) ==
  /\ th[t].pc = "rw_cleanup"
  /\ \E srcLeft \in {FALSE, th[t].src_tmp}, dstLeft \in {FALSE, th[t].dst_tmp} :
       RewriteExit(t, [th[t] EXCEPT !.src_tmp = srcLeft, !.dst_tmp = dstLeft], th[t].exc)
  /\ UNCHANGED << srcObjs, dstObjs, args, runNo, poolVars, ops, result, pure, exit_code >>

\* --------------------------------------------- _copy_metadata_if_available
\* Lines 126-140: boto3.client, which may raise to the caller; then, inside the
\* try, head_object on the source and copy_object of the destination onto itself,
\* any exception of which is swallowed, the function returning None.
CopyMetadata(t) ==
  /\ th[t].pc = "copy_meta"
  /\ \/ /\ \/ /\ th[t].src_key \in SrcKeys
              /\ DstExists(th[t].dst_key)
              /\ dstObjs' = { IF o.key = th[t].dst_key THEN [o EXCEPT !.meta = TRUE] ELSE o :
                              o \in dstObjs }
              /\ ops' = ops \cup {<<"head_src", th[t].src_key>>, <<"copy", th[t].dst_key>>}
           \/ /\ UNCHANGED dstObjs
              /\ ops' = ops \cup {<<"head_src", th[t].src_key>>}
           \/ /\ UNCHANGED dstObjs
              /\ ops' = ops \cup {<<"head_src", th[t].src_key>>, <<"copy", th[t].dst_key>>}
        /\ IF t = 0
           THEN /\ th' = [th EXCEPT ![t].pc = "done"]
                /\ mainPc' = "returned"
           ELSE /\ th' = [th EXCEPT ![t].pc = "lock", ![t].path = "ok"]
                /\ mainPc' = mainPc
     \/ /\ UNCHANGED << dstObjs, ops >>
        /\ IF t = 0
           THEN /\ th' = [th EXCEPT ![t].pc = "done", ![t].exc = "client"]
                /\ mainPc' = "raised"
           ELSE /\ th' = [th EXCEPT ![t].pc = "lock", ![t].path = "err",
                                     ![t].exc = "client"]
                /\ mainPc' = mainPc
  /\ UNCHANGED << srcObjs, args, runNo, poolVars, result, pure, exit_code >>

\* The caller invokes rewrite_repack_streaming itself.
RewriteCall ==
  /\ mainPc = "idle"
  /\ \E k \in {k \in SrcKeys : MatchesExtension(k) /\ StartsWith(k, StorePrefix)}
             \cup {KeyMissing} :
       th' = [th EXCEPT ![0] = [IdleThread EXCEPT !.pc = "rw_src_tmp", !.src_key = k,
                                  !.dst_key = DestPrefix \o _rel_key(k, StorePrefix)]]
  /\ mainPc' = "direct"
  /\ UNCHANGED << srcObjs, dstObjs, args, runNo, poolVars, ops, result, pure, exit_code >>

\* The caller invokes _copy_metadata_if_available itself.
CopyMetadataCall ==
  /\ mainPc = "idle"
  /\ \E k \in {k \in SrcKeys : MatchesExtension(k) /\ StartsWith(k, StorePrefix)}
             \cup {KeyMissing} :
       th' = [th EXCEPT ![0] = [IdleThread EXCEPT !.pc = "copy_meta", !.src_key = k,
                                  !.dst_key = DestPrefix \o _rel_key(k, StorePrefix)]]
  /\ mainPc' = "direct"
  /\ UNCHANGED << srcObjs, dstObjs, args, runNo, poolVars, ops, result, pure, exit_code >>

\* ------------------------------------------------------ repack_prefix._worker
RunningTasks == { t \in Tasks : th[t].pc \notin {"idle", "done"} }

\* WorkerStart with a thread per submitted task, whatever max_workers is.
WorkerStart_Unbounded(t) ==
  /\ mainPc = "rp_pool"
  /\ t = nextTask + 1
  /\ t <= total
  /\ nextTask' = t
  /\ th' = [th EXCEPT ![t] =
              [IdleThread EXCEPT !.pc = "probe", !.src_key = keys[t],
                                 !.dst_key = DestKey(keys[t], src_prefix, dst_prefix)]]
  /\ UNCHANGED << srcObjs, dstObjs, mainPc, args, runNo, keys, max_workers, ok_counter,
                  err_counter, ok_lock, progress, ops, result, pure, exit_code >>

\* Lines 169-175: a pool thread takes the next submitted task; at most max_workers
\* threads exist, so at most max_workers tasks run at once.
WorkerStart(t) ==
  /\ mainPc = "rp_pool"
  /\ t = nextTask + 1
  /\ t <= total
  /\ Cardinality(RunningTasks) < max_workers
  /\ nextTask' = t
  /\ th' = [th EXCEPT ![t] =
              [IdleThread EXCEPT !.pc = "probe", !.src_key = keys[t],
                                 !.dst_key = DestKey(keys[t], src_prefix, dst_prefix)]]
  /\ UNCHANGED << srcObjs, dstObjs, mainPc, args, runNo, keys, max_workers, ok_counter,
                  err_counter, ok_lock, progress, ops, result, pure, exit_code >>

\* _should_skip_existing answering False whatever head_object says.
_should_skip_existing_Never(skip_existing, head) ==
  IF skip_existing /\ head = "client" THEN "raise" ELSE "False"

\* Lines 104-116: without skip_existing no probe is made (False); otherwise
\* boto3.client may raise, outside the try; head_object returns (True) or raises,
\* for a missing key or for any other reason (False).
_should_skip_existing(skip_existing, head) ==
  IF ~skip_existing THEN "False"
  ELSE IF head = "client" THEN "raise"
  ELSE IF head = "found" THEN "True"
  ELSE "False"

\* Line 176 and lines 104-116.  The call is outside _worker's try: when it raises,
\* the task ends with the exception, counted neither succeeded nor failed.
WorkerProbe(t) ==
  /\ th[t].pc = "probe"
  /\ \E head \in IF ~args.skip_existing THEN {"none"}
                 ELSE (IF DstExists(th[t].dst_key) THEN {"found"} ELSE {"missing"})
                      \cup {"error", "client"} :
       LET skip == _should_skip_existing(args.skip_existing, head)
       IN /\ th' = [th EXCEPT ![t].probe = head,
                              ![t].path = IF skip = "True" THEN "skip" ELSE "none",
                              ![t].exc = IF skip = "raise" THEN "client" ELSE "none",
                              ![t].outcome = IF skip = "raise" THEN "raised" ELSE "none",
                              ![t].pc = CASE skip = "True" -> "lock"
                                          [] skip = "False" -> "call"
                                          [] skip = "raise" -> "done"]
          /\ ops' = IF head \in {"none", "client"} THEN ops
                    ELSE ops \cup {<<"head_dst", th[t].dst_key>>}
  /\ UNCHANGED << srcObjs, dstObjs, mainPc, args, runNo, poolVars, result, pure, exit_code >>

\* Lines 55-61: the parameters rewrite_repack_streaming declares.
RewriteParams == {"src_bucket", "src_key", "dst_bucket", "dst_key", "batch_size"}
\* Lines 189-196: the keywords _worker passes.
WorkerCallKeywords ==
  {"s3fs", "src_bucket", "src_key", "dst_bucket", "dst_key", "batch_size"}
\* A call binds when every keyword passed names a parameter; otherwise Python raises
\* TypeError before the body runs.
CallBinds == WorkerCallKeywords \subseteq RewriteParams

\* WorkerCallRewrite without the except clause of line 211: the exception leaves
\* _worker and executor.map raises it in repack_prefix.
WorkerCallRewrite_Uncaught(t) ==
  /\ th[t].pc = "call"
  /\ IF CallBinds
     THEN /\ th' = [th EXCEPT ![t].pc = "rw_src_tmp"]
          /\ UNCHANGED mainPc
     ELSE /\ th' = [th EXCEPT ![t].pc = "done", ![t].exc = "TypeError"]
          /\ mainPc' = "raised"
  /\ UNCHANGED << srcObjs, dstObjs, args, runNo, poolVars, ops, result, pure, exit_code >>

\* Lines 188-196: the call of rewrite_repack_streaming.
WorkerCallRewrite(t) ==
  /\ th[t].pc = "call"
  /\ th' = [th EXCEPT ![t] =
              IF CallBinds
              THEN [th[t] EXCEPT !.pc = "rw_src_tmp"]
              ELSE [th[t] EXCEPT !.pc = "lock", !.path = "err", !.exc = "TypeError"]]
  /\ UNCHANGED << srcObjs, dstObjs, mainPc, args, runNo, poolVars, ops, result, pure, exit_code >>

\* CounterAcquire entering the block without waiting for the lock.
CounterAcquire_NoLock(t) ==
  /\ th[t].pc = "lock"
  /\ ok_lock' = t
  /\ th' = [th EXCEPT ![t].pc = "load"]
  /\ UNCHANGED << srcObjs, dstObjs, mainPc, args, runNo, keys, max_workers, ok_counter,
                  err_counter, nextTask, progress, ops, result, pure, exit_code >>

\* Lines 177, 201, 212: with ok_lock.
CounterAcquire(t) ==
  /\ th[t].pc = "lock"
  /\ ok_lock = -1
  /\ ok_lock' = t
  /\ th' = [th EXCEPT ![t].pc = "load"]
  /\ UNCHANGED << srcObjs, dstObjs, mainPc, args, runNo, keys, max_workers, ok_counter,
                  err_counter, nextTask, progress, ops, result, pure, exit_code >>

\* Lines 178, 202, 213: the counter is read ...
CounterLoad(t) ==
  /\ th[t].pc = "load"
  /\ th' = [th EXCEPT ![t].tmp = IF th[t].path = "err" THEN err_counter ELSE ok_counter,
                      ![t].pc = "store"]
  /\ UNCHANGED << srcObjs, dstObjs, mainPc, args, runNo, poolVars, ops, result, pure, exit_code >>

\* CounterStore with the except clause counting nothing.
CounterStore_ErrNotCounted(t) ==
  /\ th[t].pc = "store"
  /\ IF th[t].path = "err"
     THEN UNCHANGED << ok_counter, err_counter >>
     ELSE /\ ok_counter' = th[t].tmp + 1
          /\ UNCHANGED err_counter
  /\ th' = [th EXCEPT ![t].pc = "release"]
  /\ UNCHANGED << srcObjs, dstObjs, mainPc, args, runNo, keys, max_workers, ok_lock,
                  nextTask, progress, ops, result, pure, exit_code >>

\* ... and written back, one more.
CounterStore(t) ==
  /\ th[t].pc = "store"
  /\ IF th[t].path = "err"
     THEN /\ err_counter' = th[t].tmp + 1
          /\ UNCHANGED ok_counter
     ELSE /\ ok_counter' = th[t].tmp + 1
          /\ UNCHANGED err_counter
  /\ th' = [th EXCEPT ![t].pc = "release"]
  /\ UNCHANGED << srcObjs, dstObjs, mainPc, args, runNo, keys, max_workers, ok_lock,
                  nextTask, progress, ops, result, pure, exit_code >>

Outcome(path) ==
  CASE path = "skip" -> "skipped"
    [] path = "ok" -> "succeeded"
    [] path = "err" -> "failed"

\* The progress test without its "or processed == total" half.
ProgressAfter_NoFinal(lines, processed) ==
  IF processed % progress_step = 0 THEN Append(lines, processed) ELSE lines

\* Lines 180-186, 204-210, 215-221: the progress line is printed, or not.
ProgressAfter(lines, processed) ==
  IF processed % progress_step = 0 \/ processed = total
  THEN Append(lines, processed)
  ELSE lines

\* Lines 179-186, 203-210, 214-221: the progress line and the lock's release.
ProgressRelease(t) ==
  /\ th[t].pc = "release"
  /\ progress' = ProgressAfter(progress, ok_counter + err_counter)
  /\ ok_lock' = -1
  /\ th' = [th EXCEPT ![t].pc = "end"]
  /\ UNCHANGED << srcObjs, dstObjs, mainPc, args, runNo, keys, max_workers, ok_counter,
                  err_counter, nextTask, ops, result, pure, exit_code >>

\* Lines 187 and 222: with the lock released the task returns, after the [ERROR]
\* line on the except path; its pool thread is free again.
WorkerEnd(t) ==
  /\ th[t].pc = "end"
  /\ th' = [th EXCEPT ![t].pc = "done", ![t].outcome = Outcome(th[t].path)]
  /\ UNCHANGED << srcObjs, dstObjs, mainPc, args, runNo, poolVars, ops, result, pure, exit_code >>

\* -------------------------------------------------------------- the system
Next ==
  \/ RepackCall
  \/ RepackList
  \/ RepackEmpty
  \/ RepackSetup
  \/ RepackJoin
  \/ RepackMapRaises
  \/ RepackRaise
  \/ RepackAgain
  \/ MainReset
  \/ CliExit
  \/ RewriteCall
  \/ CopyMetadataCall
  \/ \E t \in Threads :
       \/ RwAcquireSrc(t)
       \/ RwAcquireDst(t)
       \/ RwDownload(t)
       \/ RwOpenReader(t)
       \/ RwOpenWriter(t)
       \/ RwBatches(t)
       \/ RwWriterClose(t)
       \/ RwUpload(t)
       \/ RwCleanup(t)
       \/ CopyMetadata(t)
  \/ \E t \in Tasks :
       \/ WorkerStart(t)
       \/ WorkerProbe(t)
       \/ WorkerCallRewrite(t)
       \/ CounterAcquire(t)
       \/ CounterLoad(t)
       \/ CounterStore(t)
       \/ ProgressRelease(t)
       \/ WorkerEnd(t)

Spec == Init /\ [][Next]_vars

\* A step of a pool thread.
PoolStep ==
  \E t \in Tasks :
    \/ WorkerStart(t)
    \/ WorkerProbe(t)
    \/ WorkerCallRewrite(t)
    \/ CounterAcquire(t)
    \/ CounterLoad(t)
    \/ CounterStore(t)
    \/ ProgressRelease(t)
    \/ WorkerEnd(t)

\* repack_prefix run on its own, on a destination bucket that holds the repacked
\* objects of some of the source keys.
RunInit ==
  /\ srcObjs \in Stores
  /\ \E done \in SUBSET {k \in SrcKeys : MatchesExtension(k) /\ StartsWith(k, StorePrefix)} :
       dstObjs = { [key |-> DestKey(k, StorePrefix, DestPrefix), rows |-> k, meta |-> FALSE] :
                   k \in done }
  /\ mainPc = "idle"
  /\ args = NoArgs
  /\ runNo = 0
  /\ keys = <<>>
  /\ max_workers = 0
  /\ ok_counter = 0
  /\ err_counter = 0
  /\ ok_lock = -1
  /\ nextTask = 0
  /\ th = [t \in Threads |-> IdleThread]
  /\ progress = <<>>
  /\ ops = {}
  /\ result = <<>>
  /\ pure = NoPure
  /\ exit_code = -1

RunNext ==
  \/ RepackCall
  \/ RepackList
  \/ RepackEmpty
  \/ RepackSetup
  \/ RepackJoin
  \/ RepackMapRaises
  \/ RepackRaise
  \/ MainReset
  \/ CliExit
  \/ PoolStep

\* The threads are scheduled: a pool thread that can step eventually steps (every
\* store call returns or raises, the lock is released by its holder), and the
\* calling thread goes on once the pool has finished.
SpecFair ==
  /\ RunInit
  /\ [][RunNext]_vars
  /\ WF_vars(PoolStep)
  /\ WF_vars(RepackJoin)
  /\ WF_vars(RepackMapRaises)
  /\ WF_vars(RepackRaise)

\* ------------------------------------------- the prefix functions on their own
PureChars == {"/", "a", "b"}

PureStrings == UNION { [1..n -> PureChars] : n \in 0..MaxPrefixLen }

PureInit ==
  /\ srcObjs = << <<>> >>
  /\ dstObjs = {}
  /\ mainPc = "idle"
  /\ args = NoArgs
  /\ runNo = 0
  /\ keys = <<>>
  /\ max_workers = 0
  /\ ok_counter = 0
  /\ err_counter = 0
  /\ ok_lock = -1
  /\ nextTask = 0
  /\ th = [t \in Threads |-> IdleThread]
  /\ progress = <<>>
  /\ ops = {}
  /\ result = <<>>
  /\ exit_code = -1
  /\ \E p \in PureStrings : pure = [fn |-> "called", arg |-> p, out |-> <<>>]

\* _normalize_prefix(arg) is called and returns.
ApplyNormalize ==
  /\ pure.fn = "called"
  /\ pure' = [pure EXCEPT !.fn = "_normalize_prefix", !.out = _normalize_prefix(pure.arg)]
  /\ UNCHANGED << srcObjs, dstObjs, mainPc, args, runNo, poolVars, th, ops, result,
                  exit_code >>

PureNext == ApplyNormalize

SpecPure == PureInit /\ [][PureNext]_vars

\* ------------------------------------------------------------------ claims
RepackReturned == mainPc = "returned" /\ runNo >= 1
RewritePcs ==
  {"rw_src_tmp", "rw_dst_tmp", "rw_download", "rw_reader", "rw_writer", "rw_batches",
   "rw_close", "rw_upload", "rw_cleanup"}
CounterPcs == {"load", "store", "release"}
StepCauses == {"OSError", "download", "decode", "encode", "upload"}
RewriteOps(t) ==
  {<<"download", th[t].src_key>>, <<"upload", th[t].dst_key>>,
   <<"head_src", th[t].src_key>>, <<"copy", th[t].dst_key>>}

\* C1: when repack_prefix returns, succeeded + failed equals the number of keys
\* listed: one task was started per key and each task was counted exactly once.
C1_CountsSumToTotal ==
  RepackReturned =>
    /\ keys = list_parquet_keys(srcObjs, src_prefix)
    /\ result[1] + result[2] = Len(keys)
    /\ nextTask = Len(keys)
    /\ \A t \in 1..Len(keys) : th[t].outcome # "none"
    /\ result[1] = Cardinality({t \in 1..Len(keys) : th[t].outcome \in {"skipped", "succeeded"}})
    /\ result[2] = Cardinality({t \in 1..Len(keys) : th[t].outcome = "failed"})

C1_Witness ==
  /\ RepackReturned
  /\ Len(keys) >= 2
  /\ result[1] >= 1
  /\ result[2] >= 1

\* C2 (as claimed): a task that is not skipped and none of whose rewrite steps
\* (staging, download, transcode, upload) fails is recorded as Succeeded, and its
\* destination object exists afterwards.
C2_Original ==
  \A t \in Tasks :
    (th[t].pc = "done" /\ th[t].path # "skip" /\ th[t].probe # "client"
     /\ th[t].exc \notin StepCauses) =>
      /\ th[t].outcome = "succeeded"
      /\ DstExists(th[t].dst_key)

\* C3: the counters are read and written back only by the holder of ok_lock: at most
\* one task is inside a counter update, no increment is lost (each counter equals the
\* number of tasks that wrote it), and while the pool runs neither counter decreases.
C3_CountersUnderLock ==
  /\ [](/\ Cardinality({t \in Tasks : th[t].pc \in CounterPcs}) <= 1
        /\ \A t \in Tasks : th[t].pc \in CounterPcs => ok_lock = t
        /\ mainPc = "rp_pool" =>
             /\ ok_counter = Cardinality({t \in Tasks : th[t].pc \in {"release", "end", "done"}
                                                        /\ th[t].path \in {"skip", "ok"}})
             /\ err_counter = Cardinality({t \in Tasks : th[t].pc \in {"release", "end", "done"}
                                                         /\ th[t].path = "err"}))
  /\ [][mainPc = "rp_pool" => (ok_counter' >= ok_counter /\ err_counter' >= err_counter)]_vars

C3_Witness ==
  \E t, u \in Tasks :
    /\ th[t].pc = "store"
    /\ th[u].pc = "lock"
    /\ th[t].path = th[u].path

\* C4: a task whose existence probe (made because skip_existing is true) reports
\* the destination key present is counted as a success, and the Rewriter is not
\* invoked for it: no download, no upload and no metadata copy for its keys.
C4_SkipExisting ==
  /\ \A t \in Tasks :
       th[t].probe = "found" =>
         /\ args.skip_existing
         /\ th[t].path = "skip"
         /\ th[t].pc \in {"lock", "end", "done"} \cup CounterPcs
         /\ ~th[t].entered
         /\ RewriteOps(t) \cap ops = {}
         /\ th[t].pc = "done" => th[t].outcome = "skipped"
  /\ RepackReturned =>
       result[1] >= Cardinality({t \in Tasks : th[t].probe = "found"})

C4_Witness ==
  /\ RepackReturned
  /\ \E t \in Tasks : th[t].probe = "found" /\ th[t].outcome = "skipped"
  /\ result[1] >= 1

\* A task that failed inside the try block of _worker (lines 188-222).
C5_Failed(t) == th[t].path = "err"

\* The run was aborted by something other than a task's failure: the listing or
\* S3FileSystem raised before any task was dispatched, or an existence probe's
\* client construction raised outside the try block.
C5_AbortedElsewhere ==
  \/ nextTask = 0 /\ th[0].exc \in {"listing", "s3fs"}
  \/ \E t \in Tasks : th[t].probe = "client"

\* C5: a task's failure stays in that task: the task is counted as failed, every
\* other task still runs and reports its own outcome, and the failure never makes
\* repack_prefix abort or raise.
C5_FailureIsolated ==
  /\ (mainPc \in {"rp_shutdown", "raised"} /\ runNo >= 1) => C5_AbortedElsewhere
  /\ \A t \in Tasks :
       (C5_Failed(t) /\ th[t].pc = "done") => th[t].outcome = "failed"
  /\ \A t \in Tasks :
       (C5_Failed(t) /\ th[t].pc # "done") => mainPc \in {"rp_pool", "rp_shutdown"}
  /\ (mainPc = "rp_pool" /\ nextTask < total /\ \A t \in Tasks : th[t].probe # "client"
      /\ Cardinality(RunningTasks) < max_workers) => ENABLED WorkerStart(nextTask + 1)
  /\ RepackReturned =>
       /\ \A t \in 1..Len(keys) : th[t].pc = "done" /\ th[t].outcome # "none"
       /\ result[2] = Cardinality({t \in Tasks : C5_Failed(t)})
       /\ \A t \in Tasks : th[t].probe = "found" => th[t].outcome = "skipped"

C5_Witness ==
  /\ RepackReturned
  /\ \E t, u \in Tasks :
       /\ th[t].outcome = "failed"
       /\ th[u].outcome = "skipped"
       /\ t < u

\* C6 (as claimed): in the second of two consecutive runs with skip_existing=true on
\* the same source and destination, with no probe failing, every task is Skipped:
\* the Rewriter is not invoked and nothing is uploaded.
C6_Original ==
  (RepackReturned /\ runNo = 2 /\ args.skip_existing
   /\ \A t \in Tasks : th[t].probe # "error") =>
    /\ \A t \in 1..Len(keys) : th[t].outcome = "skipped"
    /\ \A t \in Tasks : ~th[t].entered /\ <<"upload", th[t].dst_key>> \notin ops

\* C7 (as claimed): once a thread has left rewrite_repack_streaming, by return or by
\* exception, neither staging file of that call exists.
C7_Original ==
  \A t \in Threads :
    (th[t].entered /\ th[t].pc \notin RewritePcs) => (~th[t].src_tmp /\ ~th[t].dst_tmp)

\* C8: when the listing is empty, repack_prefix returns (0, 0), no pool runs and no
\* task is started, and no store call (probe, download, upload, copy) is issued.
C8_EmptyListing ==
  (runNo >= 1 /\ mainPc \in {"rp_check", "rp_pool", "returned"} /\ keys = <<>>) =>
    /\ mainPc # "rp_pool"
    /\ nextTask = 0
    /\ \A t \in Threads : th[t] = IdleThread
    /\ ops = {}
    /\ mainPc = "returned" => result = <<0, 0>>

C8_Witness ==
  /\ RepackReturned
  /\ SrcKeys # {}
  /\ keys = <<>>
  /\ result = <<0, 0>>

\* C9 (as claimed): with skip_existing=true, a task whose existence probe failed is
\* not skipped but processed by the Rewriter, and is recorded as Failed only when a
\* step of the rewrite failed.
C9_Original ==
  \A t \in Tasks :
    (args.skip_existing /\ th[t].probe \in {"missing", "error", "client"}
     /\ th[t].pc = "done") =>
      /\ th[t].outcome # "skipped"
      /\ th[t].entered
      /\ th[t].outcome = "failed" => th[t].exc \in StepCauses

\* C10 (as claimed): for every input, _normalize_prefix returns a string that does
\* not start with "/" and that, unless empty, ends with "/".
C10_Original ==
  pure.fn = "_normalize_prefix" =>
    /\ ~StartsWith(pure.out, <<Sep>>)
    /\ pure.out # <<>> => EndsWith(pure.out, <<Sep>>)

\* ------------------------------------------------ the key mapper on its own
MapKeys == UNION { [1..n -> PureChars] : n \in 0..MaxKeyLen }

\* Source prefixes as _worker sees them: normalized by line 152.
MapSrcPrefixes ==
  { _normalize_prefix(p) : p \in UNION { [1..n -> PureChars] : n \in 0..(MaxKeyLen - 1) } }

MapDstPrefixes == { _normalize_prefix(p) : p \in DstPrefixChoices } \cup { <<>> }

\* The scenario of the specification: src/sub/file.parquet under src/ and dst2/.
ScenarioKey ==
  <<"s", "r", "c", "/", "s", "u", "b", "/", "f", "i", "l", "e", ".",
    "p", "a", "r", "q", "u", "e", "t">>
ScenarioOther == <<"s", "r", "c", "/", "x">>
ScenarioSrcPrefix == <<"s", "r", "c", "/">>
ScenarioDstPrefix == <<"d", "s", "t", "2", "/">>

MapInit ==
  /\ srcObjs = << <<>> >>
  /\ dstObjs = {}
  /\ mainPc = "idle"
  /\ args = NoArgs
  /\ runNo = 0
  /\ keys = <<>>
  /\ max_workers = 0
  /\ ok_counter = 0
  /\ err_counter = 0
  /\ ok_lock = -1
  /\ nextTask = 0
  /\ th = [t \in Threads |-> IdleThread]
  /\ progress = <<>>
  /\ ops = {}
  /\ result = <<>>
  /\ exit_code = -1
  /\ \/ \E k1 \in MapKeys, k2 \in MapKeys, sp \in MapSrcPrefixes, dp \in MapDstPrefixes :
          /\ k1 # k2
          /\ pure = [fn |-> "called", arg |-> <<k1, k2, sp, dp>>, out |-> <<>>]
     \/ pure = [fn |-> "called",
                arg |-> <<ScenarioKey, ScenarioOther, ScenarioSrcPrefix, ScenarioDstPrefix>>,
                out |-> <<>>]

\* Two tasks compute their destination keys (lines 171-172) under the same prefixes.
ApplyDestKey ==
  /\ pure.fn = "called"
  /\ pure' = [pure EXCEPT !.fn = "DestKey",
                          !.out = << DestKey(pure.arg[1], pure.arg[3], pure.arg[4]),
                                     DestKey(pure.arg[2], pure.arg[3], pure.arg[4]) >>]
  /\ UNCHANGED << srcObjs, dstObjs, mainPc, args, runNo, poolVars, th, ops, result,
                  exit_code >>

MapNext == ApplyDestKey

SpecMap == MapInit /\ [][MapNext]_vars

\* C11: for a fixed pair of prefixes, two distinct source keys that both start with
\* the source prefix get distinct destination keys.
C11_MappingInjective ==
  (pure.fn = "DestKey"
   /\ StartsWith(pure.arg[1], pure.arg[3]) /\ StartsWith(pure.arg[2], pure.arg[3])
   /\ pure.arg[1] # pure.arg[2]) =>
    pure.out[1] # pure.out[2]

C11_Witness ==
  /\ pure.fn = "DestKey"
  /\ pure.arg[3] # <<>>
  /\ StartsWith(pure.arg[1], pure.arg[3]) /\ StartsWith(pure.arg[2], pure.arg[3])
  /\ pure.arg[1] # pure.arg[2]
  /\ Len(pure.arg[1]) = Len(pure.arg[2])
  /\ pure.out[1] # pure.out[2]

\* C12: the destination key is the destination prefix followed by what remains of
\* the source key after its leading source prefix; a source key that does not start
\* with the source prefix (or an empty prefix) is appended whole.  The scenario:
\* src/sub/file.parquet under src/ and dst2/ gives dst2/sub/file.parquet.
C12_DestKeyShape ==
  pure.fn = "DestKey" =>
    \A i \in {1, 2} :
      LET k == pure.arg[i]
          sp == pure.arg[3]
          dp == pure.arg[4]
          d == pure.out[i]
          rest == SubSeq(d, Len(dp) + 1, Len(d))
      IN /\ StartsWith(d, dp)
         /\ IF StartsWith(k, sp) THEN sp \o rest = k ELSE rest = k
         /\ (k = ScenarioKey /\ sp = ScenarioSrcPrefix /\ dp = ScenarioDstPrefix) =>
              d = <<"d", "s", "t", "2", "/", "s", "u", "b", "/", "f", "i", "l", "e", ".",
                    "p", "a", "r", "q", "u", "e", "t">>

C12_Witness ==
  /\ pure.fn = "DestKey"
  /\ pure.arg[3] # <<>>
  /\ StartsWith(pure.arg[1], pure.arg[3])
  /\ Len(pure.arg[1]) > Len(pure.arg[3])
  /\ ~StartsWith(pure.arg[2], pure.arg[3])
  /\ pure.out[2] = pure.arg[4] \o pure.arg[2]

\* C13: repack_prefix is a full barrier: it returns its counts (and prints its
\* summary) only once every task has reported its outcome to the counters; and a run
\* whose pool started eventually returns with all tasks accounted for, unless a
\* client construction in a task's existence probe raised instead of returning.
C13_Barrier ==
  /\ [](RepackReturned =>
          /\ \A t \in 1..Len(keys) : th[t].pc = "done" /\ th[t].outcome # "none"
          /\ result = <<ok_counter, err_counter>>
          /\ ok_counter + err_counter = Len(keys))
  /\ [][(mainPc = "rp_pool" /\ mainPc' = "returned") => AllTasksDone]_vars
  /\ (mainPc = "rp_pool") ~> (RepackReturned \/ \E t \in Tasks : th[t].probe = "client")

C13_Witness ==
  /\ RepackReturned
  /\ Len(keys) >= 2
  /\ max_workers >= 2
  /\ result[1] + result[2] = Len(keys)

StagingFiles(t) == (IF th[t].src_tmp THEN 1 ELSE 0) + (IF th[t].dst_tmp THEN 1 ELSE 0)

RECURSIVE SumStaging(_)
SumStaging(ts) ==
  IF ts = {} THEN 0
  ELSE LET t == CHOOSE u \in ts : TRUE IN StagingFiles(t) + SumStaging(ts \ {t})

\* C14: while the pool runs, the tasks executing at once number at most the
\* effective worker count, so the staging files of the pool's tasks number at most
\* twice that; and nothing but the worker count holds a queued task back: with fewer
\* than max_workers tasks running, the next queued task can start.
C14_BoundedConcurrency ==
  mainPc = "rp_pool" =>
    /\ max_workers >= 1
    /\ Cardinality(RunningTasks) <= max_workers
    /\ SumStaging(Tasks) <= 2 * max_workers
    /\ \A t \in Tasks : StagingFiles(t) > 0 => t \in RunningTasks
    /\ (nextTask < total /\ Cardinality(RunningTasks) < max_workers) =>
         ENABLED WorkerStart(nextTask + 1)

C14_Witness ==
  /\ mainPc = "rp_pool"
  /\ Cardinality(RunningTasks) = max_workers
  /\ nextTask < total

\* C15: the process exits with status 0 when the run reports no failed task and with
\* status 2 when it reports one or more.
C15_ExitCode ==
  (mainPc = "exited" /\ result # <<>>) =>
    /\ result[2] = 0 => exit_code = 0
    /\ result[2] >= 1 => exit_code = 2

C15_Witness ==
  /\ mainPc = "exited"
  /\ result # <<>>
  /\ result[1] >= 1
  /\ result[2] >= 1
  /\ exit_code = 2

\* ---------------------------------------------------------------------------
\* list_parquet_keys on its own: a bucket of up to MaxListed objects, enumerated
\* in two pages split at any point, listed under a prefix.
\* ---------------------------------------------------------------------------
MaxListed == 3

KeyNoDot == <<"s", "/", "p", "a", "r", "q">>
KeyUpper == <<"s", "/", "C", ".", "P", "A", "R", "Q", "U", "E", "T">>
ListKeys == {KeyA, KeyB, KeyC, KeyTxt, KeyOther, KeyNoDot, KeyUpper}
ListPrefixes == { <<>>, <<"s">>, <<"s", "/">>, <<"/", "s">> }

RECURSIVE KeySeqs(_)
KeySeqs(n) ==
  IF n = 0 THEN { <<>> }
  ELSE KeySeqs(n - 1) \cup
       { Append(ks, k) : ks \in { q \in KeySeqs(n - 1) : Len(q) = n - 1 }, k \in ListKeys }

\* The bucket's keys ks as the paginator's raw pages, the first page ending after
\* cut keys.
TwoPages(ks, cut) == << SubSeq(ks, 1, cut), SubSeq(ks, cut + 1, Len(ks)) >>

ListInit ==
  /\ srcObjs = << <<>> >>
  /\ dstObjs = {}
  /\ mainPc = "idle"
  /\ args = NoArgs
  /\ runNo = 0
  /\ keys = <<>>
  /\ max_workers = 0
  /\ ok_counter = 0
  /\ err_counter = 0
  /\ ok_lock = -1
  /\ nextTask = 0
  /\ th = [t \in Threads |-> IdleThread]
  /\ progress = <<>>
  /\ ops = {}
  /\ result = <<>>
  /\ exit_code = -1
  /\ \E ks \in KeySeqs(MaxListed), prefix \in ListPrefixes :
       \E cut \in 0..Len(ks) :
         pure = [fn |-> "called", arg |-> <<ks, cut, prefix>>, out |-> <<>>]

\* list_parquet_keys(bucket, prefix) returns its list (lines 37-52).
ApplyList ==
  /\ pure.fn = "called"
  /\ pure' = [pure EXCEPT !.fn = "list_parquet_keys",
                          !.out = list_parquet_keys(TwoPages(pure.arg[1], pure.arg[2]),
                                                    pure.arg[3])]
  /\ UNCHANGED << srcObjs, dstObjs, mainPc, args, runNo, poolVars, th, ops, result,
                  exit_code >>

ListNext == ApplyList

SpecList == ListInit /\ [][ListNext]_vars

\* A key the listing is required to keep: enumerated under the normalized prefix, its
\* lowercased name ending in .parquet or .parq.
C16_Wanted(k, prefix) ==
  /\ StartsWith(k, _normalize_prefix(prefix))
  /\ \/ EndsWith(LowerStr(k), <<".", "p", "a", "r", "q", "u", "e", "t">>)
     \/ EndsWith(LowerStr(k), <<".", "p", "a", "r", "q">>)

\* C16: the lister returns exactly the enumerated keys whose lowercased name ends with
\* .parquet or .parq, over all pages, in enumeration order; other keys are left out, and
\* when no key matches the result is the empty list.
C16_ListsExactlyMatching ==
  pure.fn = "list_parquet_keys" =>
    LET ks     == pure.arg[1]
        prefix == pure.arg[3]
        want   == { i \in 1..Len(ks) : C16_Wanted(ks[i], prefix) }
        out    == pure.out
    IN /\ Len(out) = Cardinality(want)
       /\ \E pos \in [1..Len(out) -> want] :
            /\ \A i \in 1..Len(out) : out[i] = ks[pos[i]]
            /\ \A i, j \in 1..Len(out) : i < j => pos[i] < pos[j]
       /\ want = {} => out = <<>>

C16_Witness ==
  /\ pure.fn = "list_parquet_keys"
  /\ pure.arg = << <<KeyUpper, KeyTxt, KeyB>>, 2, <<"s">> >>
  /\ pure.out = <<KeyUpper, KeyB>>

\* The listing of a bucket with no matching key is reached and is empty.
C16_WitnessEmpty ==
  /\ pure.fn = "list_parquet_keys"
  /\ pure.arg[1] = <<KeyTxt, KeyNoDot>>
  /\ pure.out = <<>>

\* The destination bucket's contents, metadata aside.
C17_Stored == { [key |-> o.key, rows |-> o.rows] : o \in dstObjs }

C17_Uploads == { op \in ops : op[1] = "upload" }

C17_Transcoding == {"rw_reader", "rw_writer", "rw_batches", "rw_close"}

\* C17: within a task the download comes before the transcode, the transcode and the
\* writer's close before the upload; the upload is attempted only with no error pending,
\* so a task whose download or transcode failed never attempts the upload and never
\* changes the destination bucket.
C17_StepsOrdered ==
  /\ [](\A t \in Threads :
          /\ th[t].pc \in C17_Transcoding \cup {"rw_upload"} =>
               <<"download", th[t].src_key>> \in ops
          /\ (th[t].pc \in C17_Transcoding /\ th[t].exc = "none") =>
               <<"upload", th[t].dst_key>> \notin ops
          /\ th[t].pc = "rw_upload" => th[t].exc = "none"
          /\ th[t].exc \in {"download", "decode", "encode"} =>
               <<"upload", th[t].dst_key>> \notin ops)
  /\ [][(C17_Stored' # C17_Stored \/ ~(C17_Uploads' \subseteq C17_Uploads)) =>
          \E t \in Threads :
            /\ th[t].pc = "rw_upload"
            /\ th[t].exc = "none"
            /\ th[t].src_key \in SrcKeys
            /\ th'[t].pc = "rw_cleanup"
            /\ C17_Uploads' = C17_Uploads \cup {<<"upload", th[t].dst_key>>}]_vars

C17_Witness ==
  /\ th[0].pc = "done"
  /\ th[0].exc = "decode"
  /\ <<"download", th[0].src_key>> \in ops
  /\ <<"upload", th[0].dst_key>> \notin ops
  /\ ~DstExists(th[0].dst_key)

\* ---------------------------------------------------------------------------
\* The progress lines of one run over up to MaxTotal keys.  The block a task
\* executes while it holds ok_lock (the increment, the processed count, the
\* progress test) is one step here: the lock lets no other task in between.
\* ---------------------------------------------------------------------------
MaxTotal == 21

\* The i-th key of a listing of any length.
NumberedKey(i) == StorePrefix \o [j \in 1..i |-> "k"] \o <<".", "p", "a", "r", "q">>

ProgressInit ==
  /\ srcObjs = << <<>> >>
  /\ dstObjs = {}
  /\ mainPc = "rp_pool"
  /\ args = NoArgs
  /\ runNo = 1
  /\ \E n \in 1..MaxTotal : keys = [i \in 1..n |-> NumberedKey(i)]
  /\ max_workers = 1
  /\ ok_counter = 0
  /\ err_counter = 0
  /\ ok_lock = -1
  /\ nextTask = 0
  /\ th = [t \in Threads |-> IdleThread]
  /\ progress = <<>>
  /\ ops = {}
  /\ result = <<>>
  /\ pure = NoPure
  /\ exit_code = -1

\* Lines 177-187 and 201-210: a task counts itself succeeded under the lock.
CountOk ==
  /\ mainPc = "rp_pool"
  /\ nextTask < total
  /\ nextTask' = nextTask + 1
  /\ ok_counter' = ok_counter + 1
  /\ progress' = ProgressAfter(progress, ok_counter' + err_counter)
  /\ UNCHANGED << srcObjs, dstObjs, mainPc, args, runNo, keys, max_workers, err_counter,
                  ok_lock, th, ops, result, pure, exit_code >>

\* Lines 212-221: a task counts itself failed under the lock.
CountErr ==
  /\ mainPc = "rp_pool"
  /\ nextTask < total
  /\ nextTask' = nextTask + 1
  /\ err_counter' = err_counter + 1
  /\ progress' = ProgressAfter(progress, ok_counter + err_counter')
  /\ UNCHANGED << srcObjs, dstObjs, mainPc, args, runNo, keys, max_workers, ok_counter,
                  ok_lock, th, ops, result, pure, exit_code >>

ProgressNext == CountOk \/ CountErr

SpecProgress == ProgressInit /\ [][ProgressNext]_vars

\* step = max(1, total div 10).
C18_Step == IF total >= 10 THEN total \div 10 ELSE 1

\* The processed counts at which a notification is due, among those reached so far.
C18_Due == { p \in 1..(ok_counter + err_counter) : p % C18_Step = 0 \/ p = total }

\* C18: a completion emits a progress notification exactly when the processed count it
\* produced is a multiple of step or equals total; the counts reported are strictly
\* increasing, and the notification reporting total appears exactly once in a run
\* that completed all of its total >= 1 tasks.
C18_ProgressNotifications ==
  /\ { progress[i] : i \in 1..Len(progress) } = C18_Due
  /\ Len(progress) = Cardinality(C18_Due)
  /\ \A i, j \in 1..Len(progress) : i < j => progress[i] < progress[j]
  /\ (total >= 1 /\ ok_counter + err_counter = total) =>
       Cardinality({ i \in 1..Len(progress) : progress[i] = total }) = 1
  /\ progress_step = C18_Step

C18_Witness ==
  /\ total = 21
  /\ ok_counter >= 1
  /\ err_counter >= 1
  /\ ok_counter + err_counter = total
  /\ progress = <<2, 4, 6, 8, 10, 12, 14, 16, 18, 20, 21>>

\* C19 (as claimed): a failure of the best-effort metadata copy is swallowed: the
\* copy always returns normally, leaves the repacked object as it was, and a task that
\* reached it after a successful rewrite goes on to count itself succeeded.
C19_Original ==
  [][\A t \in Threads :
       (th[t].pc = "copy_meta" /\ th'[t].pc # "copy_meta") =>
         /\ th'[t].exc = "none"
         /\ C17_Stored' = C17_Stored
         /\ IF t = 0
            THEN th'[t].pc = "done" /\ mainPc' = "returned"
            ELSE th'[t].pc = "lock" /\ th'[t].path = "ok"]_vars

\* C20: normalizing the already normalized source prefix gives the same prefix, so the
\* lister enumerates under the prefix the worker strips, and every listed key starts
\* with that prefix.
C20_Original ==
  (runNo >= 1 /\ mainPc \in {"rp_check", "rp_pool", "returned"}) =>
    /\ _normalize_prefix(src_prefix) = src_prefix
    /\ \A i \in 1..Len(keys) : StartsWith(keys[i], src_prefix)

====
